---- MODULE Spec2Model ----
(***************************************************************************)
(* Model of src/main.py (Wikipedia GPT-3 bot).                             *)
(*                                                                         *)
(* Strings are sequences of one-character strings, offsets are 0-based as  *)
(* in Python and Slice(s, a, b) is s[a:b].  The character "ESC" stands for *)
(* the single escape character \033.  Search terms are literal patterns    *)
(* (no regular-expression metacharacters).                                 *)
(***************************************************************************)
EXTENDS Integers, Sequences, FiniteSets, TLC

\* ------------------------------------------------------------ constants
CONTEXT_CHAR_LIMIT == 4000
CONTEXT_HALF_SIZE == 300
EXCERPT_HALF_SIZE == 200

CONTEXT_DIVIDER == <<" ", "[", ".", ".", ".", "]", " ">>
BOLD_SEQUENCE_START == <<"ESC", "[", "1", "m">>
BOLD_SEQUENCE_END == <<"ESC", "[", "0", "m">>

\* Python's None where a string is expected: no string of characters equals it
None == <<"None">>

NoTitle == ""

\* ------------------------------------------------------- string helpers
Min2(a, b) == IF a < b THEN a ELSE b

\* s[a:b] for 0 <= a (Python slice, clipped at the end of s)
Slice(s, a, b) ==
  LET hi == Min2(b, Len(s))
  IN IF a >= hi THEN <<>> ELSE SubSeq(s, a + 1, hi)

\* n copies of character c
Rep(c, n) == [i \in 1..n |-> c]

IsSpace(c) == c \in {" ", "\n", "\t"}

\* str.strip()
Strip(s) ==
  IF \A i \in 1..Len(s) : IsSpace(s[i]) THEN <<>>
  ELSE LET first == CHOOSE i \in 1..Len(s) :
                      /\ ~IsSpace(s[i])
                      /\ \A j \in 1..(i - 1) : IsSpace(s[j])
           last == CHOOSE i \in 1..Len(s) :
                      /\ ~IsSpace(s[i])
                      /\ \A j \in (i + 1)..Len(s) : IsSpace(s[j])
       IN SubSeq(s, first, last)

\* does e occur at 0-based offset i of s
OccursAt(s, e, i) ==
  /\ i >= 0
  /\ i + Len(e) <= Len(s)
  /\ \/ Len(e) = 0
     \/ /\ s[i + 1] = e[1]
        /\ SubSeq(s, i + 1, i + Len(e)) = e

\* e in s
Contains(s, e) == \E i \in 0..(Len(s) - Len(e)) : OccursAt(s, e, i)

\* s.find(e) restricted to offsets >= from; -1 when there is none
FindFrom(s, e, from) ==
  IF \E i \in from..(Len(s) - Len(e)) : OccursAt(s, e, i)
  THEN CHOOSE i \in from..(Len(s) - Len(e)) :
         /\ OccursAt(s, e, i)
         /\ \A j \in from..(i - 1) : ~OccursAt(s, e, j)
  ELSE -1

Find(s, e) == FindFrom(s, e, 0)

RECURSIVE ReplaceFrom(_, _, _, _)
ReplaceFrom(s, old, new, from) ==
  LET i == FindFrom(s, old, from)
  IN IF i = -1 THEN Slice(s, from, Len(s))
     ELSE Slice(s, from, i) \o new \o ReplaceFrom(s, old, new, i + Len(old))

\* s.replace(old, new) for a non-empty old
Replace(s, old, new) == ReplaceFrom(s, old, new, 0)

\* s.replace("\n", " ")
NewlinesToSpaces(s) == [i \in 1..Len(s) |-> IF s[i] = "\n" THEN " " ELSE s[i]]

LowerChar(c) ==
  CASE c = "A" -> "a"
    [] c = "B" -> "b"
    [] c = "M" -> "m"
    [] c = "X" -> "x"
    [] OTHER -> c

Lower(s) == [i \in 1..Len(s) |-> LowerChar(s[i])]

RECURSIVE JoinFrom(_, _, _)
JoinFrom(sep, parts, k) ==
  IF k > Len(parts) THEN <<>>
  ELSE (IF k = 1 THEN <<>> ELSE sep) \o parts[k] \o JoinFrom(sep, parts, k + 1)

\* sep.join(parts)
Join(sep, parts) == JoinFrom(sep, parts, 1)

\* ---------------------------------------------------- sanitize_response
\* response.strip().replace("\n", "").replace("\"", "")
sanitize_response(response) ==
  LET t == Strip(response)
  IN SelectSeq(t, LAMBDA c : c # "\n" /\ c # "\"")

\* ------------------------------------------------------ generate_context
RECURSIVE MatchesFrom(_, _, _)
MatchesFrom(lc, lt, from) ==
  LET i == FindFrom(lc, lt, from)
  IN IF i = -1 THEN <<>>
     ELSE <<i>> \o MatchesFrom(lc, lt, i + Len(lt))

\* [m.start() for m in re.finditer(term, content, re.IGNORECASE)], literal term
Matches(ctrlf_term, content) ==
  IF Len(ctrlf_term) = 0 THEN [i \in 1..(Len(content) + 1) |-> i - 1]
  ELSE MatchesFrom(Lower(content), Lower(ctrlf_term), 0)

RawWindow_Clamped(content, match) ==
  IF match > CONTEXT_HALF_SIZE
  THEN Slice(content, match - CONTEXT_HALF_SIZE, match + CONTEXT_HALF_SIZE)
  ELSE Slice(content, 0, match + CONTEXT_HALF_SIZE)

\* the excerpt window around one occurrence
RawWindow(content, match) ==
  IF match > CONTEXT_HALF_SIZE
  THEN Slice(content, match - CONTEXT_HALF_SIZE, match + CONTEXT_HALF_SIZE)
  ELSE Slice(content, 0, match + match)

LoopLimit_Four == 3 + 1

\* the loop stops once this many excerpts are accepted
LoopLimit == 3

\* the for loop over matches; acc collects one record per iteration that
\* reached the window computation: the offset, the raw window, whether it
\* was accepted
RECURSIVE ContextLoop(_, _, _, _, _)
ContextLoop(page, matches, k, n, acc) ==
  IF k > Len(matches) \/ n = LoopLimit THEN acc
  ELSE LET match == matches[k]
           excerpt == RawWindow(page.content, match)
       IN IF Contains(page.summary, excerpt)
          THEN ContextLoop(page, matches, k + 1, n,
                 Append(acc, [match |-> match, raw |-> excerpt, accepted |-> FALSE]))
          ELSE ContextLoop(page, matches, k + 1, n + 1,
                 Append(acc, [match |-> match, raw |-> excerpt, accepted |-> TRUE]))

Iterations(page, ctrlf_term) ==
  ContextLoop(page, Matches(ctrlf_term, page.content), 1, 0, <<>>)

\* top_three_contexts after the loop
TopThree(iters) ==
  LET acc == SelectSeq(iters, LAMBDA r : r.accepted)
  IN [i \in 1..Len(acc) |-> Strip(acc[i].raw)]

Truncate_None(s) == s

\* [:CONTEXT_CHAR_LIMIT]
Truncate(s) == Slice(s, 0, CONTEXT_CHAR_LIMIT)

JoinContext(page, top_three_contexts) ==
  Truncate(Join(CONTEXT_DIVIDER, <<Strip(page.summary)>> \o top_three_contexts))

generate_context(page, ctrlf_term) ==
  JoinContext(page, TopThree(Iterations(page, ctrlf_term)))

\* ------------------------------------------------------ generate_excerpt
ExcerptOrNone_IgnoreCase(context, excerpt) ==
  IF Contains(Lower(context), Lower(excerpt)) THEN excerpt ELSE None

\* the result of generate_excerpt for the sanitized completion text
ExcerptOrNone(context, excerpt) ==
  IF Contains(context, excerpt) THEN excerpt ELSE None

\* ------------------------------------------ generate_context_highlighted
MarkExcerpt_StartOnly(context, excerpt) ==
  IF excerpt # <<>>
  THEN Replace(context, excerpt, BOLD_SEQUENCE_START \o excerpt)
  ELSE context

\* context_highlighted
MarkExcerpt(context, excerpt) ==
  IF excerpt # <<>>
  THEN Replace(context, excerpt,
               BOLD_SEQUENCE_START \o excerpt \o BOLD_SEQUENCE_END)
  ELSE context

\* context_highlighted_abridged
Abridge(context_highlighted, excerpt) ==
  LET match == Find(context_highlighted, excerpt)
  IN IF match > EXCERPT_HALF_SIZE
     THEN Slice(context_highlighted, match - EXCERPT_HALF_SIZE,
                match + Len(excerpt) + EXCERPT_HALF_SIZE)
     ELSE Slice(context_highlighted, 0,
                match + Len(excerpt) + EXCERPT_HALF_SIZE)

generate_context_highlighted(context, excerpt) ==
  IF excerpt = None \/ ~Contains(context, excerpt)
  THEN NewlinesToSpaces(context)
  ELSE NewlinesToSpaces(Abridge(MarkExcerpt(context, excerpt), excerpt))

\* ------------------------------------------------ page_search_query_to_page
PageOutcome == [kind |-> "page"]
PageErrorOutcome == [kind |-> "error"]
Disambiguation(options) == [kind |-> "disambiguation", options |-> options]

\* wikipedia.search / wikipedia.page results -> what the function does:
\* "exit" (sys.exit(1)), "raise" (an exception leaves the function) or
\* "page" (the title whose page is returned); fetched lists the titles
\* wikipedia.page was called with, in order
page_search_query_to_page_LastOption(search_results, first, second) ==
  IF Len(search_results) = 0
  THEN [kind |-> "exit", fetched |-> <<>>, title |-> NoTitle]
  ELSE IF first.kind = "page"
  THEN [kind |-> "page", fetched |-> <<search_results[1]>>,
        title |-> search_results[1]]
  ELSE IF first.kind = "error"
  THEN [kind |-> "raise", fetched |-> <<search_results[1]>>, title |-> NoTitle]
  ELSE IF Len(first.options) = 0
  THEN [kind |-> "raise", fetched |-> <<search_results[1]>>, title |-> NoTitle]
  ELSE LET alt == first.options[Len(first.options)]
       IN IF second.kind = "page"
          THEN [kind |-> "page", fetched |-> <<search_results[1], alt>>,
                title |-> alt]
          ELSE [kind |-> "raise", fetched |-> <<search_results[1], alt>>,
                title |-> NoTitle]

page_search_query_to_page(search_results, first, second) ==
  IF Len(search_results) = 0
  THEN [kind |-> "exit", fetched |-> <<>>, title |-> NoTitle]
  ELSE IF first.kind = "page"
  THEN [kind |-> "page", fetched |-> <<search_results[1]>>,
        title |-> search_results[1]]
  ELSE IF first.kind = "error"
  THEN [kind |-> "raise", fetched |-> <<search_results[1]>>, title |-> NoTitle]
  ELSE IF Len(first.options) = 0
  THEN [kind |-> "raise", fetched |-> <<search_results[1]>>, title |-> NoTitle]
  ELSE LET alt == first.options[1]
       IN IF second.kind = "page"
          THEN [kind |-> "page", fetched |-> <<search_results[1], alt>>,
                title |-> alt]
          ELSE [kind |-> "raise", fetched |-> <<search_results[1], alt>>,
                title |-> NoTitle]

\* ------------------------------------------------------------- inputs
\* bound on the questions read by the interactive loop
MaxQuestions == 2
\* number of close occurrences of the term in the ManyOccurrences article
ManyCount == 6

X(n) == Rep("x", n)
ab == <<"a", "b">>

Questions ==
  {"When did Apollo 11 land on the Moon?", "How far is Mercury from the Sun?"}

SearchResultLists ==
  { <<>>, <<"Apollo 11">>, <<"Mercury", "Apollo 11">> }

OptionLists ==
  { <<>>,
    <<"Mercury (planet)", "Mercury (element)">>,
    <<"Mercury (element)", "Mercury (planet)", "Mercury (mythology)">> }

FetchOutcomes ==
  {PageOutcome, PageErrorOutcome} \cup {Disambiguation(o) : o \in OptionLists}

RECURSIVE Repeated(_, _)
Repeated(s, n) == IF n = 0 THEN <<>> ELSE s \o Repeated(s, n - 1)

ManyBody == Repeated(ab \o X(2), ManyCount) \o X(350) \o <<"A", "B">> \o X(20)

\* page bodies and summaries the encyclopedia may return for a title
Articles(title) ==
  CASE title = "Apollo 11" ->
         { \* occurrences at 5, 300 and 702
           [content |-> X(5) \o ab \o X(293) \o ab \o X(400) \o <<"A", "b">> \o X(300),
            summary |-> X(3)],
           \* occurrences at 299 and 301
           [content |-> X(299) \o ab \o ab \o X(400),
            summary |-> <<"x", "m", "\n", "x">>],
           \* a summary that is the start of the body
           [content |-> X(2) \o ab \o X(2),
            summary |-> X(2) \o ab \o X(2)] }
    [] title = "Mercury" ->
         { \* many occurrences, the first windows lie in the summary
           [content |-> ManyBody,
            summary |-> Slice(ManyBody, 0, 16)],
           \* windows with surrounding whitespace
           [content |-> <<" ", "a", "b", " ", "\n">> \o X(3) \o <<" ", "a", "b", " ">>,
            summary |-> <<" ", "x", "a", "b", "\n", "x", " ">>] }
    [] title = "Mercury (planet)" ->
         { \* summary and excerpts longer than the limit together
           [content |-> <<"m">> \o X(299) \o ab \o X(300),
            summary |-> X(250) \o ab \o X(3300) \o <<"\n">> \o X(200)],
           \* a summary longer than the limit by itself
           [content |-> X(4) \o ab,
            summary |-> X(CONTEXT_CHAR_LIMIT) \o ab] }
    [] title = "Mercury (element)" ->
         { \* a summary that holds the escape character
           [content |-> ab,
            summary |-> X(2 * EXCERPT_HALF_SIZE) \o <<"ESC">> \o ab] }
    [] OTHER -> {}

NoPage == [title |-> NoTitle, content |-> <<>>, summary |-> <<>>]

\* raw completion texts, before sanitize_response
RawQueries == { <<" ", "a", "b", "\n">> }

RawTerms == { <<" ", "a", "B", "\n">>, <<>>, <<"z">> }

RawExcerpts ==
  { <<"\n", " ">>,
    <<"\n", "\"", "a", "\n", "b", "\"", " ">>,
    <<"A", "B">>,
    <<"m">>,
    <<" ">> \o X(EXCERPT_HALF_SIZE) \o <<"ESC">> }

\* ------------------------------------------------------------- state
VARIABLES
  pc,                 \* where the process is
  has_key,            \* OPENAI_API_KEY in os.environ
  argv,               \* sys.argv
  exit_status,        \* the process's exit status, -1 while it runs
  stdout,             \* what has been printed, one tag per print call
  questions_read,     \* input() calls that returned
  completions_issued, \* completion requests sent
  question,           \* answer_question's argument
  page_search_query,
  resolution,         \* what page_search_query_to_page did in this cycle
  page,               \* answer_question's page
  ctrlf_term,
  iterations,         \* the loop iterations of generate_context
  context,
  answer_task,        \* the gathered generate_answer: idle/pending/done/failed
  excerpt_task,       \* the gathered generate_excerpt
  excerpt_text,       \* the sanitized completion generate_excerpt received
  excerpt,            \* what generate_excerpt returned
  context_highlighted

vars ==
  <<pc, has_key, argv, exit_status, stdout, questions_read, completions_issued,
    question, page_search_query, resolution, page, ctrlf_term, iterations, context, answer_task,
    excerpt_task, excerpt_text, excerpt, context_highlighted>>

process == <<has_key, argv>>

NoResolution ==
  [search_results |-> <<>>, first |-> PageOutcome, second |-> PageOutcome,
   kind |-> "none", fetched |-> <<>>]

\* the locals of answer_question before it runs
ClearLocals ==
  /\ question' = ""
  /\ page_search_query' = None
  /\ resolution' = NoResolution
  /\ page' = NoPage
  /\ ctrlf_term' = None
  /\ iterations' = <<>>
  /\ context' = None
  /\ answer_task' = "idle"
  /\ excerpt_task' = "idle"
  /\ excerpt_text' = None
  /\ excerpt' = None
  /\ context_highlighted' = None

locals ==
  <<question, page_search_query, resolution, page, ctrlf_term, iterations, context, answer_task,
    excerpt_task, excerpt_text, excerpt, context_highlighted>>

Init ==
  /\ pc = "start"
  /\ has_key \in BOOLEAN
  /\ argv \in {<<"main.py">>} \cup {<<"main.py", q>> : q \in Questions}
  /\ exit_status = -1
  /\ stdout = <<>>
  /\ questions_read = 0
  /\ completions_issued = 0
  /\ question = ""
  /\ page_search_query = None
  /\ resolution = NoResolution
  /\ page = NoPage
  /\ ctrlf_term = None
  /\ iterations = <<>>
  /\ context = None
  /\ answer_task = "idle"
  /\ excerpt_task = "idle"
  /\ excerpt_text = None
  /\ excerpt = None
  /\ context_highlighted = None

\* an exception nobody catches leaves asyncio.run: traceback, exit status 1
Uncaught ==
  /\ pc' = "crashed"
  /\ exit_status' = 1

\* ------------------------------------------------------------- actions
ensure_env_vars_NoExit ==
  /\ pc = "start"
  /\ pc' = "main"
  /\ stdout' = IF has_key THEN stdout ELSE Append(stdout, "no key")
  /\ UNCHANGED <<process, exit_status, questions_read, completions_issued, locals>>

ensure_env_vars ==
  /\ pc = "start"
  /\ IF has_key
     THEN /\ pc' = "main"
          /\ UNCHANGED <<stdout, exit_status>>
     ELSE /\ stdout' = Append(stdout, "no key")
          /\ pc' = "exited"
          /\ exit_status' = 1
  /\ UNCHANGED <<process, questions_read, completions_issued, locals>>

\* main with a question on the command line
MainScript ==
  /\ pc = "main"
  /\ Len(argv) > 1
  /\ question' = argv[2]
  /\ pc' = "search_query"
  /\ UNCHANGED <<process, exit_status, stdout, questions_read, completions_issued,
                 page_search_query, resolution, page, ctrlf_term, iterations, context, answer_task,
                 excerpt_task, excerpt_text, excerpt, context_highlighted>>

\* main without arguments prints the introduction and enters the loop
MainInteractive ==
  /\ pc = "main"
  /\ ~(Len(argv) > 1)
  /\ stdout' = Append(stdout, "intro")
  /\ pc' = "prompt"
  /\ UNCHANGED <<process, exit_status, questions_read, completions_issued, locals>>

\* input(REPL_PROMPT) returns a line
ReadQuestion ==
  /\ pc = "prompt"
  /\ questions_read < MaxQuestions
  /\ \E q \in Questions : question' = q
  /\ questions_read' = questions_read + 1
  /\ pc' = "search_query"
  /\ UNCHANGED <<process, exit_status, stdout, completions_issued,
                 page_search_query, resolution, page, ctrlf_term, iterations, context, answer_task,
                 excerpt_task, excerpt_text, excerpt, context_highlighted>>

\* input(REPL_PROMPT) raises EOFError at the end of the input
EndOfInput ==
  /\ pc = "prompt"
  /\ Uncaught
  /\ UNCHANGED <<process, stdout, questions_read, completions_issued, locals>>

\* await question_to_page_search_query(question): the completion returns
SearchQueryDone ==
  /\ pc = "search_query"
  /\ completions_issued' = completions_issued + 1
  /\ \E raw \in RawQueries : page_search_query' = sanitize_response(raw)
  /\ pc' = "resolve"
  /\ UNCHANGED <<process, exit_status, stdout, questions_read, question, resolution,
                 page, ctrlf_term, iterations, context, answer_task, excerpt_task,
                 excerpt_text, excerpt, context_highlighted>>

\* ... or the request fails
SearchQueryFail ==
  /\ pc = "search_query"
  /\ completions_issued' = completions_issued + 1
  /\ Uncaught
  /\ UNCHANGED <<process, stdout, questions_read, locals>>

Resolve ==
  /\ pc = "resolve"
  /\ \E sr \in SearchResultLists, first \in FetchOutcomes, second \in FetchOutcomes :
       LET r == page_search_query_to_page(sr, first, second)
       IN /\ resolution' = [search_results |-> sr, first |-> first,
                            second |-> IF Len(r.fetched) = 2 THEN second ELSE PageOutcome,
                            kind |-> r.kind, fetched |-> r.fetched]
          /\ CASE r.kind = "exit" ->
                    /\ stdout' = Append(stdout, "no pages")
                    /\ pc' = "exited"
                    /\ exit_status' = 1
                    /\ page' = page
               [] r.kind = "raise" ->
                    /\ Uncaught
                    /\ UNCHANGED <<stdout, page>>
               [] r.kind = "page" ->
                    /\ \E a \in Articles(r.title) :
                         page' = [title |-> r.title, content |-> a.content,
                                  summary |-> a.summary]
                    /\ stdout' = Append(stdout, "pulling up page")
                    /\ pc' = "ctrlf_term"
                    /\ UNCHANGED exit_status
  /\ UNCHANGED <<process, questions_read, completions_issued, question,
                 page_search_query, ctrlf_term,
                 iterations, context, answer_task, excerpt_task, excerpt_text,
                 excerpt, context_highlighted>>

\* await generate_ctrlf_term(page, question): the completion returns
CtrlfTermDone ==
  /\ pc = "ctrlf_term"
  /\ completions_issued' = completions_issued + 1
  /\ \E raw \in RawTerms : ctrlf_term' = sanitize_response(raw)
  /\ resolution' = NoResolution
  /\ pc' = "context"
  /\ UNCHANGED <<process, exit_status, stdout, questions_read, question, page_search_query, page,
                 iterations, context, answer_task, excerpt_task, excerpt_text,
                 excerpt, context_highlighted>>

CtrlfTermFail ==
  /\ pc = "ctrlf_term"
  /\ completions_issued' = completions_issued + 1
  /\ Uncaught
  /\ UNCHANGED <<process, stdout, questions_read, locals>>

\* context = generate_context(page, ctrlf_term)
GenerateContext ==
  /\ pc = "context"
  /\ iterations' = Iterations(page, ctrlf_term)
  /\ context' = generate_context(page, ctrlf_term)
  /\ pc' = "gather"
  /\ UNCHANGED <<process, exit_status, stdout, questions_read, completions_issued,
                 question, page_search_query, resolution, page, ctrlf_term, answer_task, excerpt_task,
                 excerpt_text, excerpt, context_highlighted>>

\* asyncio.gather(generate_answer(...), generate_excerpt(...)): both requests go out
IssueGather ==
  /\ pc = "gather"
  /\ answer_task' = "pending"
  /\ excerpt_task' = "pending"
  /\ completions_issued' = completions_issued + 2
  /\ iterations' = <<>>
  /\ pc' = "await_gather"
  /\ UNCHANGED <<process, exit_status, stdout, questions_read, question, page_search_query, resolution,
                 page, ctrlf_term, context, excerpt_text, excerpt, context_highlighted>>

AnswerDone ==
  /\ pc = "await_gather"
  /\ answer_task = "pending"
  /\ answer_task' = "done"
  /\ UNCHANGED <<pc, process, exit_status, stdout, questions_read, completions_issued,
                 question, page_search_query, resolution, page, ctrlf_term, iterations, context,
                 excerpt_task, excerpt_text, excerpt, context_highlighted>>

AnswerFail ==
  /\ pc = "await_gather"
  /\ answer_task = "pending"
  /\ answer_task' = "failed"
  /\ UNCHANGED <<pc, process, exit_status, stdout, questions_read, completions_issued,
                 question, page_search_query, resolution, page, ctrlf_term, iterations, context,
                 excerpt_task, excerpt_text, excerpt, context_highlighted>>

\* generate_excerpt's completion returns and the function returns
ExcerptDone ==
  /\ pc = "await_gather"
  /\ excerpt_task = "pending"
  /\ \E raw \in RawExcerpts :
       /\ excerpt_text' = sanitize_response(raw)
       /\ excerpt' = ExcerptOrNone(context, excerpt_text')
  /\ excerpt_task' = "done"
  /\ UNCHANGED <<pc, process, exit_status, stdout, questions_read, completions_issued,
                 question, page_search_query, resolution, page, ctrlf_term, iterations, context,
                 answer_task, context_highlighted>>

ExcerptFail ==
  /\ pc = "await_gather"
  /\ excerpt_task = "pending"
  /\ excerpt_task' = "failed"
  /\ UNCHANGED <<pc, process, exit_status, stdout, questions_read, completions_issued,
                 question, page_search_query, resolution, page, ctrlf_term, iterations, context,
                 answer_task, excerpt_text, excerpt, context_highlighted>>

\* gather raises the first exception of its tasks into answer_question
GatherRaise ==
  /\ pc = "await_gather"
  /\ answer_task = "failed" \/ excerpt_task = "failed"
  /\ Uncaught
  /\ UNCHANGED <<process, stdout, questions_read, completions_issued, locals>>

HighlightAndReport_AnswerOnly ==
  /\ pc = "await_gather"
  /\ answer_task = "done"
  /\ context_highlighted' = generate_context_highlighted(context, excerpt)
  /\ stdout' = Append(stdout, "result")
  /\ pc' = "printed"
  /\ UNCHANGED <<process, exit_status, questions_read, completions_issued,
                 question, page_search_query, resolution, page, ctrlf_term, iterations, context,
                 answer_task, excerpt_task, excerpt_text, excerpt>>

\* gather returns both results; highlight and print the result block
HighlightAndReport ==
  /\ pc = "await_gather"
  /\ answer_task = "done"
  /\ excerpt_task = "done"
  /\ context_highlighted' = generate_context_highlighted(context, excerpt)
  /\ stdout' = Append(stdout, "result")
  /\ pc' = "printed"
  /\ UNCHANGED <<process, exit_status, questions_read, completions_issued,
                 question, page_search_query, resolution, page, ctrlf_term, iterations, context,
                 answer_task, excerpt_task, excerpt_text, excerpt>>

\* script mode: answer_question returns, main returns, the process ends
ReturnScript ==
  /\ pc = "printed"
  /\ Len(argv) > 1
  /\ pc' = "done"
  /\ exit_status' = 0
  /\ UNCHANGED <<process, stdout, questions_read, completions_issued, locals>>

NextIteration_Exit ==
  /\ pc = "printed"
  /\ ~(Len(argv) > 1)
  /\ pc' = "done"
  /\ exit_status' = 0
  /\ UNCHANGED <<process, stdout, questions_read, completions_issued, locals>>

\* interactive mode: answer_question returns into the while True loop
NextIteration ==
  /\ pc = "printed"
  /\ ~(Len(argv) > 1)
  /\ pc' = "prompt"
  /\ ClearLocals
  /\ UNCHANGED <<process, exit_status, stdout, questions_read, completions_issued>>

Next ==
  \/ ensure_env_vars
  \/ MainScript
  \/ MainInteractive
  \/ ReadQuestion
  \/ EndOfInput
  \/ SearchQueryDone
  \/ SearchQueryFail
  \/ Resolve
  \/ CtrlfTermDone
  \/ CtrlfTermFail
  \/ GenerateContext
  \/ IssueGather
  \/ AnswerDone
  \/ AnswerFail
  \/ ExcerptDone
  \/ ExcerptFail
  \/ GatherRaise
  \/ HighlightAndReport
  \/ ReturnScript
  \/ NextIteration

Spec == Init /\ [][Next]_vars

\* ------------------------------------------------------------ properties
Accepted == SelectSeq(iterations, LAMBDA r : r.accepted)

\* the join of generate_context before the cut
RECURSIVE Excerpts(_, _)
Excerpts(acc, k) ==
  IF k > Len(acc) THEN <<>>
  ELSE CONTEXT_DIVIDER \o Strip(acc[k].raw) \o Excerpts(acc, k + 1)

Joined == Strip(page.summary) \o Excerpts(Accepted, 1)

ResultBlocks(out) == Len(SelectSeq(out, LAMBDA t : t = "result"))

Interactive == ~(Len(argv) > 1)

HasEscape(s) == \E i \in 1..Len(s) : s[i] = "ESC"

Marked(e) == BOLD_SEQUENCE_START \o e \o BOLD_SEQUENCE_END

\* C1: the string generate_context returns is never longer than 4000
\* characters, whatever the page and the search term.
C1_ContextWithinLimit ==
  pc \in {"gather", "await_gather", "printed"} => Len(context) <= 4000

C1_Witness ==
  /\ pc = "gather"
  /\ Len(Accepted) > 0
  /\ Len(Joined) > 4000
  /\ Len(context) = 4000

\* C2: generate_context accepts at most three excerpts, each the window of
\* an occurrence of the term, and the context is the summary followed by
\* the accepted excerpts in left-to-right occurrence order (cut at 4000).
C2_AtMostThreeInOrder ==
  pc = "gather" =>
    /\ Len(Accepted) <= 3
    /\ \A i \in 1..Len(iterations) : \A j \in (i + 1)..Len(iterations) :
         iterations[i].match < iterations[j].match
    /\ \A i \in 1..Len(iterations) :
         OccursAt(Lower(page.content), Lower(ctrlf_term), iterations[i].match)
    /\ context = Slice(Joined, 0, 4000)

C2_Witness ==
  /\ pc = "gather"
  /\ Len(Accepted) = 3
  /\ \E i \in 1..Len(iterations) :
       ~iterations[i].accepted /\ iterations[i].match > 0
  /\ Len(Matches(ctrlf_term, page.content)) > Len(iterations)
  /\ Len(ctrlf_term) > 0

\* C3: no excerpt accepted into the context (trimmed of surrounding
\* whitespace) is a substring of the page summary.
C3_AcceptedNotInSummary ==
  pc = "gather" =>
    \A i \in 1..Len(Accepted) : ~Contains(page.summary, Strip(Accepted[i].raw))

\* C4 as stated: for every non-null excerpt E that passes the substring
\* test, the returned window holds E between the two bold markers.
C4_EveryExcerptMarked ==
  pc = "printed" /\ excerpt # None =>
    Contains(context_highlighted, Marked(excerpt))

\* C4 amended: for a context without the escape character and a non-empty
\* excerpt returned by generate_excerpt, the result is a window of the
\* marked text (newlines as spaces) that holds E between the two bold
\* markers; for the empty excerpt the result is the first 200 characters
\* of the context without any marker added.
C4_NonEmptyExcerptMarked ==
  pc = "printed" /\ excerpt # None =>
    /\ excerpt # <<>> /\ ~HasEscape(context) =>
         /\ Contains(context_highlighted, Marked(excerpt))
         /\ Contains(NewlinesToSpaces(Replace(context, excerpt, Marked(excerpt))),
                     context_highlighted)
    /\ excerpt = <<>> =>
         context_highlighted = NewlinesToSpaces(Slice(context, 0, 200))

C4_Witness ==
  /\ pc = "printed"
  /\ excerpt # None
  /\ excerpt # <<>>
  /\ ~HasEscape(context)
  /\ Find(context, excerpt) > 200
  /\ Len(context_highlighted) < Len(context)
  /\ Contains(context_highlighted, Marked(excerpt))

\* C5: when the completion text does not occur (case-sensitively) in the
\* context generate_excerpt returns None, and generate_context_highlighted
\* with None or with a text that is no substring returns the whole context
\* with each newline replaced by a space and nothing else changed.
SameButNewlines(s, t) ==
  /\ Len(t) = Len(s)
  /\ \A i \in 1..Len(s) : t[i] = IF s[i] = "\n" THEN " " ELSE s[i]

C5_NoMatchNoHighlight ==
  /\ excerpt_task = "done" /\ pc \in {"await_gather", "printed"} =>
       /\ (\A i \in 0..(Len(context) - Len(excerpt_text)) :
             SubSeq(context, i + 1, i + Len(excerpt_text)) # excerpt_text)
            => excerpt = None
       /\ excerpt # None => excerpt = excerpt_text
  /\ pc = "printed" =>
       /\ excerpt = None => SameButNewlines(context, context_highlighted)
       /\ \A raw \in RawExcerpts :
            ~Contains(context, sanitize_response(raw)) =>
              SameButNewlines(context,
                generate_context_highlighted(context, sanitize_response(raw)))

C5_Witness ==
  /\ pc = "printed"
  /\ excerpt_text # None
  /\ excerpt = None
  /\ Contains(Lower(context), Lower(excerpt_text))
  /\ Contains(context, <<"\n">>)
  /\ Len(context) > 200

\* C6: the two completions are issued together once the context is built;
\* the result block is highlighted and printed only when both have
\* completed; once either has failed no result block is printed and the
\* question ends in the uncaught failure.
C6_JointAwait ==
  /\ [](pc = "await_gather" =>
          context # None /\ answer_task # "idle" /\ excerpt_task # "idle")
  /\ [][(answer_task = "idle" /\ answer_task' = "pending")
          <=> (excerpt_task = "idle" /\ excerpt_task' = "pending")]_vars
  /\ [][answer_task' # answer_task \/ excerpt_task' # excerpt_task =>
          \/ pc = "gather" /\ pc' = "await_gather"
          \/ pc = "await_gather" /\ pc' = "await_gather"
          \/ pc = "printed" /\ pc' = "prompt"]_vars
  /\ [][ResultBlocks(stdout') # ResultBlocks(stdout)
          \/ context_highlighted' # context_highlighted =>
          answer_task = "done" /\ excerpt_task = "done"]_vars
  /\ [][pc = "await_gather" /\ (answer_task = "failed" \/ excerpt_task = "failed") =>
          /\ pc' \in {"await_gather", "crashed"}
          /\ stdout' = stdout
          /\ context_highlighted' = None]_vars
  /\ [](pc = "crashed" => exit_status = 1)

C6_Witness ==
  /\ pc = "crashed"
  /\ answer_task = "done"
  /\ excerpt_task = "failed"
  /\ excerpt = None
  /\ ResultBlocks(stdout) = 0

\* C7: a missing credential ends the process with status 1 before any
\* question is read or completion requested; an empty search result ends
\* it with status 1 without a page fetch, a further completion or a result
\* block; after either exit nothing more happens.
C7_FatalExit ==
  /\ [](~has_key => /\ pc \in {"start", "exited"}
                    /\ questions_read = 0
                    /\ completions_issued = 0
                    /\ ResultBlocks(stdout) = 0)
  /\ [](pc = "exited" => exit_status = 1)
  /\ [](pc = "exited" /\ ~has_key => stdout = <<"no key">>)
  /\ [](resolution.kind # "none" /\ resolution.search_results = <<>> =>
          /\ pc = "exited"
          /\ resolution.kind = "exit"
          /\ resolution.fetched = <<>>
          /\ page = NoPage
          /\ answer_task = "idle" /\ excerpt_task = "idle"
          /\ stdout[Len(stdout)] = "no pages")
  /\ [][resolution.kind = "none" /\ resolution'.kind = "exit" =>
          /\ completions_issued' = completions_issued
          /\ ResultBlocks(stdout') = ResultBlocks(stdout)]_vars
  /\ [][pc = "exited" => vars' = vars]_vars

C7_Witness ==
  /\ pc = "exited"
  /\ has_key
  /\ resolution.kind = "exit"
  /\ questions_read = 2
  /\ ResultBlocks(stdout) = 1

\* C8: when the fetch of the first search result signals disambiguation,
\* the first listed alternative and nothing else is fetched next; there is
\* at most that one fallback fetch, and a disambiguation (or any error)
\* signalled by it is not handled.
C8_FirstAlternative ==
  resolution.kind # "none" /\ resolution.search_results # <<>>
    /\ resolution.first.kind = "disambiguation" =>
      /\ resolution.fetched[1] = resolution.search_results[1]
      /\ Len(resolution.fetched) <= 2
      /\ resolution.first.options # <<>> =>
           /\ Len(resolution.fetched) = 2
           /\ resolution.fetched[2] = resolution.first.options[1]
           /\ resolution.second.kind = "page" =>
                resolution.kind = "page" /\ page.title = resolution.first.options[1]
           /\ resolution.second.kind # "page" =>
                resolution.kind = "raise" /\ pc = "crashed" /\ page = NoPage
      /\ resolution.first.options = <<>> =>
           resolution.kind = "raise" /\ pc = "crashed"

C8_Witness ==
  /\ resolution.kind = "page"
  /\ resolution.first.kind = "disambiguation"
  /\ Len(resolution.first.options) = 3
  /\ resolution.search_results = <<"Mercury", "Apollo 11">>
  /\ page.title = "Mercury (element)"
  /\ pc = "ctrlf_term"

\* C9: the raw window of the occurrence at offset s is body[s-300 : s+300]
\* when s >= 300 and body[0 : s+s] when s < 300; at s = 300 both rules
\* give the same window.
C9_MirroredWindow ==
  pc = "gather" =>
    \A i \in 1..Len(iterations) :
      LET s == iterations[i].match
          body == page.content
      IN /\ s >= 300 => iterations[i].raw = Slice(body, s - 300, s + 300)
         /\ s < 300 => iterations[i].raw = Slice(body, 0, s + s)
         /\ s = 300 => iterations[i].raw = Slice(body, 0, s + s)

C9_Witness ==
  /\ pc = "gather"
  /\ \E i \in 1..Len(iterations) :
       iterations[i].match = 300 /\ Len(iterations[i].raw) = 600
  /\ \E i \in 1..Len(iterations) :
       iterations[i].match \in 1..299 /\ Len(page.content) > iterations[i].match + 300
  /\ \E i \in 1..Len(iterations) :
       iterations[i].match > 300 /\ Len(iterations[i].raw) = 600

\* C10: in interactive mode a question is read only at the prompt, which
\* is entered from main or after a cycle that printed its result; after a
\* printed result the loop goes back to the prompt and the process does not
\* exit; a failed call ends the process and nothing is read afterwards.
C10_InteractiveLoop ==
  /\ [][pc' = "prompt" /\ pc # "prompt" =>
          \/ pc = "main"
          \/ pc = "printed" /\ stdout[Len(stdout)] = "result"]_vars
  /\ [][questions_read' # questions_read =>
          /\ pc = "prompt"
          /\ questions_read' = questions_read + 1
          /\ ResultBlocks(stdout) = questions_read]_vars
  /\ [][pc = "printed" /\ Interactive =>
          pc' \in {"printed", "prompt"} /\ exit_status' = -1]_vars
  /\ [][pc' = "crashed" /\ pc # "crashed" => exit_status' = 1]_vars
  /\ [][pc = "crashed" => vars' = vars]_vars
  /\ [](Interactive => exit_status # 0)

C10_Witness ==
  /\ Interactive
  /\ pc = "crashed"
  /\ questions_read = 2
  /\ ResultBlocks(stdout) = 1
  /\ answer_task = "failed"
====
